---- MODULE Spec2Model ----
(***************************************************************************)
(* SwanSong Logbook: the entry store (data_store.py), the exporter         *)
(* (exporter.py) and the query / command layer (cli.py).                   *)
(*                                                                         *)
(* Representation of Python values                                         *)
(*   dict            a function from its keys to values (DOMAIN = keys)    *)
(*   list            a sequence                                            *)
(*   Optional[T]     a sequence of length <= 1: None is << >>, v is <<v>>  *)
(*   str             a TLA+ string; a string the code takes apart          *)
(*                   character by character (the raw tag list) is a        *)
(*                   sequence of one-character strings                     *)
(*   timestamp str   [date |-> first ten characters, time |-> the rest]    *)
(*   date            its day number (IsoText[d] is the text of day d)      *)
(***************************************************************************)
EXTENDS Integers, Sequences, FiniteSets, Bags

VARIABLES files, prev, appended, ret, proc, log, arg

vars == <<files, prev, appended, ret, proc, log, arg>>

(***************************************************************************)
(* Bounds of the model.                                                    *)
(***************************************************************************)
MaxEntries == 2
MaxDay == 2
MaxRawLen == 5
MaxSeqLen == 2
MaxWindow == 1
MaxMoods == 3

(***************************************************************************)
(* Strings and dates.                                                      *)
(***************************************************************************)
None == << >>

Some(v) == <<v>>

\* Python truthiness of an Optional[str]: None and "" are falsy.
Truthy(opt) == opt # None /\ opt # Some("")

\* The same for an Optional[str] whose string is a character sequence.
TruthyChars(opt) == opt # None /\ opt # Some(<< >>)

\* The ISO text of day d; a text outside the table is no date.
IsoText ==
  <<"2023-04-01", "2023-04-02", "2023-04-03", "2023-04-04", "2023-04-05",
    "2023-04-06", "2023-04-07", "2023-04-08">>

\* The time-of-day parts of timestamps, in lexicographic order.
TimeText == <<"T08:00:00", "T08:00:00.000250">>

Days == 1..MaxDay

IsIsoDate(s) == \E d \in 1..Len(IsoText) : IsoText[d] = s

Return(v) == [exc |-> "", value |-> v]

Raise(kind, text, value) == [exc |-> kind, text |-> text, value |-> value]

\* date.fromisoformat(s)
fromisoformat(s) ==
  IF IsIsoDate(s)
  THEN Return(CHOOSE d \in 1..Len(IsoText) : IsoText[d] = s)
  ELSE Raise("ValueError", "Invalid isoformat string:", s)

Timestamps == {[date |-> IsoText[d], time |-> TimeText[1]] : d \in Days}

\* The empty string, as a timestamp-shaped string.
EmptyStr == [date |-> "", time |-> ""]

\* Rank of a string under Python's lexicographic str comparison: "" is a
\* prefix of every string, then date part, then time part.
StrRank(s) ==
  IF s = EmptyStr THEN << >>
  ELSE <<CHOOSE d \in 1..Len(IsoText) : IsoText[d] = s.date,
         CHOOSE t \in 1..Len(TimeText) : TimeText[t] = s.time>>

RECURSIVE LexLess(_, _)
LexLess(a, b) ==
  IF b = << >> THEN FALSE
  ELSE IF a = << >> THEN TRUE
  ELSE IF Head(a) # Head(b) THEN Head(a) < Head(b)
  ELSE LexLess(Tail(a), Tail(b))

\* a < b on the strings the sort key takes
StrLess(a, b) == LexLess(StrRank(a), StrRank(b))

\* dict.get(key, default)
Get(e, key, default) == IF key \in DOMAIN e THEN e[key] ELSE default

(***************************************************************************)
(* JSON documents: json.dumps / json.loads of a list of entries.           *)
(***************************************************************************)
JNull == [type |-> "null"]

JString(s) == [type |-> "string", value |-> s]

JArray(items) == [type |-> "array", items |-> items]

JObject(members) == [type |-> "object", members |-> members]

\* The keys of an entry, in the order the payload builder inserts them.
KeyOrder == <<"title", "body", "mood", "timestamp", "tags", "reminder", "status">>

\* The JSON value of the Python value v stored under key k.
dump_value(k, v) ==
  IF k = "tags" THEN JArray([i \in 1..Len(v) |-> JString(v[i])])
  ELSE IF k = "reminder" THEN (IF v = None THEN JNull ELSE JString(v[1]))
  ELSE JString(v)

RECURSIVE dump_members(_, _)
dump_members(e, i) ==
  IF i > Len(KeyOrder) THEN << >>
  ELSE IF KeyOrder[i] \in DOMAIN e
       THEN <<[key |-> KeyOrder[i], value |-> dump_value(KeyOrder[i], e[KeyOrder[i]])]>>
            \o dump_members(e, i + 1)
       ELSE dump_members(e, i + 1)

json_dumps(entries) ==
  JArray([i \in 1..Len(entries) |-> JObject(dump_members(entries[i], 1))])

\* The Python value of the JSON value j stored under key k.
load_value(k, j) ==
  IF k = "tags" THEN [i \in 1..Len(j.items) |-> j.items[i].value]
  ELSE IF k = "reminder" THEN (IF j.type = "null" THEN None ELSE Some(j.value))
  ELSE j.value

\* A JSON object becomes a dict: a later member with the same key wins.
load_object(j) ==
  LET keys == {j.members[i].key : i \in 1..Len(j.members)}
      last(k) == CHOOSE i \in 1..Len(j.members) :
                   /\ j.members[i].key = k
                   /\ \A n \in (i + 1)..Len(j.members) : j.members[n].key # k
  IN [k \in keys |-> load_value(k, j.members[last(k)].value)]

json_loads(doc) == [i \in 1..Len(doc.items) |-> load_object(doc.items[i])]

(***************************************************************************)
(* data_store.py                                                           *)
(***************************************************************************)
NoFile == [type |-> "absent"]

LOGBOOK_FILE == "data/logbook.json"

EXPORT_FILE == "data/logbook_export.json"

Paths == {LOGBOOK_FILE, EXPORT_FILE}

\* Path.write_text / open("w"): the file is replaced in full.
write_text(fs, path, doc) == [fs EXCEPT ![path] = doc]

\* Variant: the logbook is reset whether or not it exists.
_ensure_logbook_reset(fs) == write_text(fs, LOGBOOK_FILE, JArray(<< >>))

\* _ensure_logbook: a missing logbook becomes the empty document "[]".
_ensure_logbook(fs) ==
  IF fs[LOGBOOK_FILE] = NoFile
  THEN write_text(fs, LOGBOOK_FILE, JArray(<< >>))
  ELSE fs

SortKey(e) == Get(e, "timestamp", EmptyStr)

\* x goes before the first element whose key is not greater than its own.
RECURSIVE InsertDesc(_, _)
InsertDesc(x, s) ==
  IF s = << >> THEN <<x>>
  ELSE IF StrLess(SortKey(x), SortKey(Head(s)))
       THEN <<Head(s)>> \o InsertDesc(x, Tail(s))
       ELSE <<x>> \o s

\* Variant: ascending, as sorted() without reverse=True.
RECURSIVE InsertAsc(_, _)
InsertAsc(x, s) ==
  IF s = << >> THEN <<x>>
  ELSE IF StrLess(SortKey(Head(s)), SortKey(x)) \/ SortKey(Head(s)) = SortKey(x)
       THEN <<Head(s)>> \o InsertAsc(x, Tail(s))
       ELSE <<x>> \o s

RECURSIVE SortedAsc(_)
SortedAsc(s) ==
  IF s = << >> THEN << >> ELSE InsertAsc(Head(s), SortedAsc(Tail(s)))

\* sorted(raw, key=timestamp, reverse=True): stable, descending.
RECURSIVE SortedDesc(_)
SortedDesc(s) ==
  IF s = << >> THEN << >> ELSE InsertDesc(Head(s), SortedDesc(Tail(s)))

\* Variant: equal timestamps come back in reverse file order.
load_entries_ties_reversed(fs) ==
  LET fs1 == _ensure_logbook(fs)
      raw == json_loads(fs1[LOGBOOK_FILE])
  IN [fs |-> fs1,
      entries |-> SortedDesc([i \in 1..Len(raw) |-> raw[Len(raw) + 1 - i]])]

\* load_entries, as the pair of the file system it leaves and the list.
load_entries(fs) ==
  LET fs1 == _ensure_logbook(fs)
  IN [fs |-> fs1, entries |-> SortedDesc(json_loads(fs1[LOGBOOK_FILE]))]

save_entries(fs, entries) ==
  write_text(_ensure_logbook(fs), LOGBOOK_FILE, json_dumps(entries))

\* Variant: the loaded entries are dropped before the save.
append_entry_overwrite(fs, entry) ==
  save_entries(load_entries(fs).fs, <<entry>>)

\* append_entry: the file system after the call (the entry is returned).
append_entry(fs, entry) ==
  LET loaded == load_entries(fs)
  IN save_entries(loaded.fs, <<entry>> \o loaded.entries)

\* The index of the first entry whose timestamp equals ts, 0 when none.
FirstMatch(entries, ts) ==
  IF \E i \in 1..Len(entries) : Get(entries[i], "timestamp", EmptyStr) = ts
  THEN CHOOSE i \in 1..Len(entries) :
         /\ Get(entries[i], "timestamp", EmptyStr) = ts
         /\ \A n \in 1..(i - 1) : Get(entries[n], "timestamp", EmptyStr) # ts
  ELSE 0

SetKey(e, k, v) == [x \in DOMAIN e \cup {k} |-> IF x = k THEN v ELSE e[x]]

\* set_entry_status: load, mark the first match, save, report the match.
set_entry_status(fs, ts, status) ==
  LET loaded == load_entries(fs)
      i == FirstMatch(loaded.entries, ts)
      updated == [n \in 1..Len(loaded.entries) |->
                    IF n = i THEN SetKey(loaded.entries[n], "status", status)
                    ELSE loaded.entries[n]]
  IN [fs |-> save_entries(loaded.fs, updated), found |-> i # 0]

(***************************************************************************)
(* exporter.py                                                             *)
(***************************************************************************)
\* Variant: the target is opened for appending.
export_entries_append(fs, entries, target) ==
  [fs |-> write_text(fs, target,
            IF fs[target] = NoFile THEN json_dumps(entries)
            ELSE JArray(fs[target].items \o json_dumps(entries).items)),
   value |-> target]

\* export_entries: the target is overwritten with the given entries and
\* returned.
export_entries(fs, entries, target) ==
  [fs |-> write_text(fs, target, json_dumps(entries)), value |-> target]

(***************************************************************************)
(* cli.py                                                                  *)
(***************************************************************************)
\* _parse_date: None for a missing or empty value, the date, or ValueError.
_parse_date(value) ==
  IF ~Truthy(value) THEN Return(None)
  ELSE LET r == fromisoformat(value[1])
       IN IF r.exc = "" THEN Return(Some(r.value))
          ELSE Raise("ValueError", "date must be in YYYY-MM-DD form, got", value[1])

Whitespace == {" ", "\t", "\n"}

RECURSIVE lstrip(_)
lstrip(s) ==
  IF s # << >> /\ Head(s) \in Whitespace THEN lstrip(Tail(s)) ELSE s

RECURSIVE rstrip(_)
rstrip(s) ==
  IF s # << >> /\ s[Len(s)] \in Whitespace
  THEN rstrip(SubSeq(s, 1, Len(s) - 1))
  ELSE s

\* str.strip()
strip(s) == rstrip(lstrip(s))

\* str.split(sep): the fragments between the separators, empty ones kept.
RECURSIVE split(_, _)
split(s, sep) ==
  IF \E i \in 1..Len(s) : s[i] = sep
  THEN LET i == CHOOSE i \in 1..Len(s) :
                  s[i] = sep /\ \A n \in 1..(i - 1) : s[n] # sep
       IN <<SubSeq(s, 1, i - 1)>> \o split(SubSeq(s, i + 1, Len(s)), sep)
  ELSE <<s>>

NonEmpty(part) == part # << >>

\* Variant: the filter tests the fragment before it is stripped.
_normalize_tags_unstripped_test(raw) ==
  LET parts == split(raw, ",")
      kept == SelectSeq(parts, NonEmpty)
  IN [i \in 1..Len(kept) |-> strip(kept[i])]

_normalize_tags(raw) ==
  LET parts == split(raw, ",")
  IN SelectSeq([i \in 1..Len(parts) |-> strip(parts[i])], NonEmpty)

\* _build_entry_payload; now is datetime.utcnow().isoformat().
_build_entry_payload(title, body, mood, tags, remind, timestamp, now) ==
  [title |-> title,
   body |-> body,
   mood |-> mood,
   timestamp |-> IF timestamp # None /\ timestamp # Some(EmptyStr)
                 THEN timestamp[1] ELSE now,
   tags |-> _normalize_tags(tags),
   reminder |-> remind]

\* _prompt_for_entry; each argument is the stripped input line.
_prompt_for_entry(title, body, mood, tags, remind, now) ==
  _build_entry_payload(
    IF title = "" THEN "untitled" ELSE title,
    IF body = "" THEN "no body yet" ELSE body,
    IF mood = "" THEN "neutral" ELSE mood,
    strip(tags),
    IF remind = "" THEN None ELSE Some(remind),
    None, now)

\* Variant: entries without a mood are skipped.
RECURSIVE SummarizeFrom_skip_missing(_, _, _)
SummarizeFrom_skip_missing(entries, i, summary) ==
  IF i > Len(entries) THEN summary
  ELSE IF "mood" \notin DOMAIN entries[i]
  THEN SummarizeFrom_skip_missing(entries, i + 1, summary)
  ELSE LET mood == entries[i]["mood"]
       IN SummarizeFrom_skip_missing(entries, i + 1,
            SetKey(summary, mood, Get(summary, mood, 0) + 1))

RECURSIVE SummarizeFrom(_, _, _)
SummarizeFrom(entries, i, summary) ==
  IF i > Len(entries) THEN summary
  ELSE LET mood == Get(entries[i], "mood", "neutral")
       IN SummarizeFrom(entries, i + 1,
                        SetKey(summary, mood, Get(summary, mood, 0) + 1))

\* _summarize_moods: the dict label -> count; << >> is the empty dict.
_summarize_moods(entries) == SummarizeFrom(entries, 1, << >>)

\* Variant: a reminder due today counts as overdue.
RECURSIVE PlanFrom_today_overdue(_, _, _, _, _, _)
PlanFrom_today_overdue(entries, i, today, due_window, upcoming, overdue) ==
  IF i > Len(entries) THEN Return([overdue |-> overdue, upcoming |-> upcoming])
  ELSE LET entry == entries[i]
           remind == Get(entry, "reminder", None)
       IN IF ~Truthy(remind)
          THEN PlanFrom_today_overdue(entries, i + 1, today, due_window, upcoming, overdue)
          ELSE LET r == fromisoformat(remind[1])
               IN IF r.exc # "" THEN r
                  ELSE IF r.value <= today
                  THEN PlanFrom_today_overdue(entries, i + 1, today, due_window,
                                              upcoming, Append(overdue, entry))
                  ELSE IF due_window = None \/ r.value <= due_window[1]
                  THEN PlanFrom_today_overdue(entries, i + 1, today, due_window,
                                              Append(upcoming, entry), overdue)
                  ELSE PlanFrom_today_overdue(entries, i + 1, today, due_window,
                                              upcoming, overdue)

RECURSIVE PlanFrom(_, _, _, _, _, _)
PlanFrom(entries, i, today, due_window, upcoming, overdue) ==
  IF i > Len(entries) THEN Return([overdue |-> overdue, upcoming |-> upcoming])
  ELSE LET entry == entries[i]
           remind == Get(entry, "reminder", None)
       IN IF ~Truthy(remind)
          THEN PlanFrom(entries, i + 1, today, due_window, upcoming, overdue)
          ELSE LET r == fromisoformat(remind[1])
               IN IF r.exc # "" THEN r
                  ELSE IF r.value < today
                  THEN PlanFrom(entries, i + 1, today, due_window,
                                upcoming, Append(overdue, entry))
                  ELSE IF due_window = None \/ r.value <= due_window[1]
                  THEN PlanFrom(entries, i + 1, today, due_window,
                                Append(upcoming, entry), overdue)
                  ELSE PlanFrom(entries, i + 1, today, due_window,
                                upcoming, overdue)

\* _plan_reminders: the two lists it prints, or the exception it raises.
\* days is an Optional[int]; today is date.today().
_plan_reminders(entries, days, today) ==
  LET due_window == IF days # None THEN Some(today + days[1]) ELSE None
  IN PlanFrom(entries, 1, today, due_window, << >>, << >>)

\* Python's seq[:n]
SliceTo(s, n) ==
  IF n >= 0 THEN SubSeq(s, 1, IF n < Len(s) THEN n ELSE Len(s))
  ELSE SubSeq(s, 1, Len(s) + n)

HasMood(e, mood) == "mood" \in DOMAIN e /\ e["mood"] = mood

HasTag(e, tag) == \E i \in 1..Len(Get(e, "tags", << >>)) : e["tags"][i] = tag

HasTimestamp(e) == Get(e, "timestamp", EmptyStr) # EmptyStr

\* date.fromisoformat(e["timestamp"][:10])
EntryDate(e) == fromisoformat(e["timestamp"].date)

\* Variant: the bounds are exclusive.
DateFilter_exclusive(filtered, bound, since) ==
  LET keep(e) ==
        /\ HasTimestamp(e)
        /\ IF since THEN EntryDate(e).value > bound ELSE EntryDate(e).value < bound
  IN Return(SelectSeq(filtered, keep))

\* One date comprehension of _filter_entries: the entries kept, or the
\* ValueError of the first timestamp that is no date.
DateFilter(filtered, bound, since) ==
  IF \E i \in 1..Len(filtered) :
       HasTimestamp(filtered[i]) /\ EntryDate(filtered[i]).exc # ""
  THEN EntryDate(filtered[CHOOSE i \in 1..Len(filtered) :
         /\ HasTimestamp(filtered[i]) /\ EntryDate(filtered[i]).exc # ""
         /\ \A n \in 1..(i - 1) :
              ~(HasTimestamp(filtered[n]) /\ EntryDate(filtered[n]).exc # "")])
  ELSE LET keep(e) ==
             /\ HasTimestamp(e)
             /\ IF since THEN EntryDate(e).value >= bound
                ELSE EntryDate(e).value <= bound
       IN Return(SelectSeq(filtered, keep))

\* _filter_entries; args is the Namespace of the list command.
_filter_entries(entries, args) ==
  LET byMood(e) == HasMood(e, args.mood[1])
      byTag(e) == HasTag(e, args.tag[1])
      f1 == IF Truthy(args.mood) THEN SelectSeq(entries, byMood) ELSE entries
      f2 == IF TruthyChars(args.tag) THEN SelectSeq(f1, byTag) ELSE f1
      since_date == _parse_date(args.since)
      f3 == IF since_date.exc # "" THEN since_date
            ELSE IF since_date.value # None
            THEN DateFilter(f2, since_date.value[1], TRUE)
            ELSE Return(f2)
      until_date == _parse_date(args.until)
      f4 == IF f3.exc # "" THEN f3
            ELSE IF until_date.exc # "" THEN until_date
            ELSE IF until_date.value # None
            THEN DateFilter(f3.value, until_date.value[1], FALSE)
            ELSE f3
  IN IF f4.exc # "" THEN f4
     ELSE IF args.limit # 0 THEN Return(SliceTo(f4.value, args.limit))
     ELSE f4

(***************************************************************************)
(* State.                                                                  *)
(*   files     the file system: path -> JSON document, or NoFile           *)
(*   prev      the file system before the last operation (history)         *)
(*   appended  the bag of entries handed to append_entry (history)         *)
(*   ret       what the last operation returned, printed or raised         *)
(*   proc      the racing invocations of append_entry: position, locals    *)
(*   log       the loads and saves of the racing invocations (history)     *)
(*   arg       the arguments of the function under study                   *)
(***************************************************************************)
NoFiles == [p \in Paths |-> NoFile]

Idle == [op |-> "none"]

\* The entries of the logbook document, in file order.
Stored(fs) ==
  IF fs[LOGBOOK_FILE] = NoFile THEN << >> ELSE json_loads(fs[LOGBOOK_FILE])

Titles == {"a", "b"}

(***************************************************************************)
(* The store under the add, prompt and complete commands, one at a time.   *)
(***************************************************************************)
InitStore ==
  /\ files = NoFiles
  /\ prev = NoFiles
  /\ appended = EmptyBag
  /\ ret = Idle
  /\ proc = << >>
  /\ log = << >>
  /\ arg = Idle

\* main, command add
AddCmd(title, body, mood, tags, remind, now) ==
  LET entry == _build_entry_payload(title, body, mood, tags, remind, None, now)
  IN /\ Len(Stored(files)) < MaxEntries
     /\ files' = append_entry(files, entry)
     /\ prev' = files
     /\ appended' = appended (+) SetToBag({entry})
     /\ ret' = [op |-> "add", remind |-> remind, exc |-> "", out |-> "entry recorded"]
     /\ UNCHANGED <<proc, log, arg>>

\* main, command prompt
PromptCmd(title, body, mood, tags, remind, now) ==
  LET entry == _prompt_for_entry(title, body, mood, tags, remind, now)
  IN /\ Len(Stored(files)) < MaxEntries
     /\ files' = append_entry(files, entry)
     /\ prev' = files
     /\ appended' = appended (+) SetToBag({entry})
     /\ ret' = [op |-> "prompt", remind |-> entry.reminder, exc |-> "",
                out |-> "guided entry logged"]
     /\ UNCHANGED <<proc, log, arg>>

\* main, command complete: entries = load_entries(), then set_entry_status.
CompleteCmd(ts) ==
  LET r == set_entry_status(load_entries(files).fs, ts, "done")
  IN /\ files' = r.fs
     /\ prev' = files
     /\ ret' = [op |-> "complete", timestamp |-> ts, updated |-> r.found,
                exc |-> "",
                out |-> IF r.found THEN "entry marked as done"
                        ELSE "could not find an entry with that timestamp"]
     /\ UNCHANGED <<appended, proc, log, arg>>

NextStore ==
  \/ \E title \in Titles, now \in Timestamps :
       AddCmd(title, "text", "neutral", <<"x", ",", " ">>, None, now)
  \/ \E now \in Timestamps :
       PromptCmd("", "", "", <<" ", "x">>, "", now)
  \/ \E ts \in Timestamps : CompleteCmd(ts)

SpecStore == InitStore /\ [][NextStore]_vars

(***************************************************************************)
(* The commands that read or store dates: add, prompt, list, remind and    *)
(* review.  An exception nobody catches in main ends the invocation.       *)
(***************************************************************************)
DefaultLimit == 10

\* main, command list
ListCmd(args) ==
  LET loaded == load_entries(files)
      r == _filter_entries(loaded.entries, args)
  IN /\ files' = loaded.fs
     /\ prev' = files
     /\ ret' = IF r.exc = ""
               THEN [op |-> "list", since |-> args.since, until |-> args.until,
                     exc |-> "", out |-> r.value]
               ELSE [op |-> "list", since |-> args.since, until |-> args.until,
                     exc |-> r.exc, text |-> r.text, value |-> r.value]
     /\ UNCHANGED <<appended, proc, log, arg>>

\* main, command remind
RemindCmd(days, today) ==
  LET loaded == load_entries(files)
      r == _plan_reminders(loaded.entries, Some(days), today)
  IN /\ files' = loaded.fs
     /\ prev' = files
     /\ ret' = IF r.exc = ""
               THEN [op |-> "remind", exc |-> "", out |-> r.value]
               ELSE [op |-> "remind", exc |-> r.exc, text |-> r.text, value |-> r.value]
     /\ UNCHANGED <<appended, proc, log, arg>>

\* main, command review: _print_review prints the mood snapshot, then the
\* reminder report.
ReviewCmd(remind_days, today) ==
  LET loaded == load_entries(files)
      summary == _summarize_moods(loaded.entries)
      r == _plan_reminders(loaded.entries, Some(remind_days), today)
  IN /\ files' = loaded.fs
     /\ prev' = files
     /\ ret' = IF r.exc = ""
               THEN [op |-> "review", exc |-> "", out |-> <<summary, r.value>>]
               ELSE [op |-> "review", exc |-> r.exc, text |-> r.text, value |-> r.value]
     /\ UNCHANGED <<appended, proc, log, arg>>

\* Date arguments as typed on the command line: none, a date, or no date.
DateArgs == {None, Some("soon")} \cup {Some(IsoText[d]) : d \in Days}

NextCli ==
  \/ \E now \in Timestamps, remind \in DateArgs :
       AddCmd("a", "text", "neutral", << >>, remind, now)
  \/ \E now \in Timestamps, remind \in {"", "soon"} :
       PromptCmd("b", "", "", << >>, remind, now)
  \/ \E since \in DateArgs, until \in DateArgs :
       ListCmd([mood |-> None, tag |-> None, since |-> since, until |-> until,
                limit |-> DefaultLimit])
  \/ \E days \in 0..MaxWindow, today \in Days : RemindCmd(days, today)
  \/ \E days \in 0..MaxWindow, today \in Days : ReviewCmd(days, today)

SpecCli == InitStore /\ [][NextCli]_vars

(***************************************************************************)
(* save_entries(X) followed at once by load_entries().                     *)
(***************************************************************************)
\* Entries of every shape the store holds: built by the payload builder,
\* completed since, with and without reminder and tags, and a sparse one.
SampleEntries ==
  {_build_entry_payload("a", "text", "neutral", << >>, None, None, now) :
     now \in Timestamps}
  \cup {SetKey(_build_entry_payload("b", "text", "calm", <<"x", ",", "y">>,
                                    Some(IsoText[1]), None, now),
               "status", "done") : now \in Timestamps}
  \cup {[title |-> "c"]}

SeqsUpTo(S, n) == UNION {[1..k -> S] : k \in 0..n}

OneEntryDoc == json_dumps(<<CHOOSE e \in SampleEntries : e.title = "b">>)

InitRoundTrip ==
  /\ files \in {NoFiles, [NoFiles EXCEPT ![LOGBOOK_FILE] = OneEntryDoc]}
  /\ prev = files
  /\ appended = EmptyBag
  /\ ret = Idle
  /\ proc = << >>
  /\ log = << >>
  /\ arg \in [entries : SeqsUpTo(SampleEntries, MaxSeqLen)]

SaveStep ==
  /\ ret.op = "none"
  /\ files' = save_entries(files, arg.entries)
  /\ ret' = [op |-> "save_entries"]
  /\ UNCHANGED <<prev, appended, proc, log, arg>>

LoadStep ==
  /\ ret.op = "save_entries"
  /\ files' = load_entries(files).fs
  /\ ret' = [op |-> "load_entries", value |-> load_entries(files).entries]
  /\ UNCHANGED <<prev, appended, proc, log, arg>>

NextRoundTrip == SaveStep \/ LoadStep

SpecRoundTrip == InitRoundTrip /\ [][NextRoundTrip]_vars

(***************************************************************************)
(* export_entries(entries, target) on any target path.                     *)
(***************************************************************************)
InitExport ==
  /\ files \in [Paths -> {NoFile, OneEntryDoc}]
  /\ prev = files
  /\ appended = EmptyBag
  /\ ret = Idle
  /\ proc = << >>
  /\ log = << >>
  /\ arg \in [entries : SeqsUpTo(SampleEntries, MaxSeqLen), target : Paths]

ExportStep ==
  LET r == export_entries(files, arg.entries, arg.target)
  IN /\ ret.op = "none"
     /\ files' = r.fs
     /\ prev' = files
     /\ ret' = [op |-> "export_entries", value |-> r.value]
     /\ UNCHANGED <<appended, proc, log, arg>>

NextExport == ExportStep

SpecExport == InitExport /\ [][NextExport]_vars

(***************************************************************************)
(* Two invocations of append_entry on the same logbook, with no lock: each *)
(* loads, inserts its entry into its own list, and saves.                  *)
(***************************************************************************)
Procs == {1, 2}

InitRace ==
  /\ files \in {NoFiles, [NoFiles EXCEPT ![LOGBOOK_FILE] = OneEntryDoc]}
  /\ prev = files
  /\ appended = EmptyBag
  /\ ret = Idle
  /\ proc \in [Procs -> {[pc |-> "start",
                          entry |-> _build_entry_payload(t, "text", "neutral", << >>,
                                                         None, None, now),
                          entries |-> << >>] : t \in Titles, now \in Timestamps}]
  /\ log = << >>
  /\ arg = Idle

\* entries = load_entries()
RaceLoad(p) ==
  /\ proc[p].pc = "start"
  /\ files' = load_entries(files).fs
  /\ proc' = [proc EXCEPT ![p].pc = "loaded", ![p].entries = load_entries(files).entries]
  /\ log' = Append(log, <<p, "load">>)
  /\ UNCHANGED <<prev, appended, ret, arg>>

\* entries.insert(0, entry)
RaceInsert(p) ==
  /\ proc[p].pc = "loaded"
  /\ proc' = [proc EXCEPT ![p].pc = "inserted",
                          ![p].entries = <<proc[p].entry>> \o proc[p].entries]
  /\ UNCHANGED <<files, prev, appended, ret, log, arg>>

\* save_entries(entries)
RaceSave(p) ==
  /\ proc[p].pc = "inserted"
  /\ files' = save_entries(files, proc[p].entries)
  /\ proc' = [proc EXCEPT ![p].pc = "done"]
  /\ log' = Append(log, <<p, "save">>)
  /\ UNCHANGED <<prev, appended, ret, arg>>

NextRace == \E p \in Procs : RaceLoad(p) \/ RaceInsert(p) \/ RaceSave(p)

SpecRace == InitRace /\ [][NextRace]_vars

(***************************************************************************)
(* _normalize_tags on every raw string, alone and inside the payload       *)
(* builder and the guided prompt.                                          *)
(***************************************************************************)
TagAlphabet == {"a", "b", " ", ","}

InitPure(args) ==
  /\ files = NoFiles
  /\ prev = NoFiles
  /\ appended = EmptyBag
  /\ ret = Idle
  /\ proc = << >>
  /\ log = << >>
  /\ arg \in args

InitTags == InitPure([raw : SeqsUpTo(TagAlphabet, MaxRawLen)])

NormalizeStep ==
  /\ ret.op = "none"
  /\ ret' = [op |-> "_normalize_tags", value |-> _normalize_tags(arg.raw)]
  /\ UNCHANGED <<files, prev, appended, proc, log, arg>>

BuildStep ==
  /\ ret.op = "none"
  /\ ret' = [op |-> "_build_entry_payload",
             value |-> _build_entry_payload("a", "text", "neutral", arg.raw, None, None,
                         [date |-> IsoText[1], time |-> TimeText[2]])]
  /\ UNCHANGED <<files, prev, appended, proc, log, arg>>

PromptStep ==
  /\ ret.op = "none"
  /\ ret' = [op |-> "_prompt_for_entry",
             value |-> _prompt_for_entry("", "", "", arg.raw, "",
                         [date |-> IsoText[1], time |-> TimeText[2]])]
  /\ UNCHANGED <<files, prev, appended, proc, log, arg>>

NextTags == NormalizeStep \/ BuildStep \/ PromptStep

SpecTags == InitTags /\ [][NextTags]_vars

(***************************************************************************)
(* _summarize_moods on every sequence of entries with or without a mood.   *)
(***************************************************************************)
MoodEntries == {[title |-> "a"]} \cup {[mood |-> m] : m \in {"curious", "tired", "neutral"}}

InitMoods == InitPure([entries : SeqsUpTo(MoodEntries, MaxMoods)])

SummarizeStep ==
  /\ ret.op = "none"
  /\ ret' = [op |-> "_summarize_moods", value |-> _summarize_moods(arg.entries)]
  /\ UNCHANGED <<files, prev, appended, proc, log, arg>>

NextMoods == SummarizeStep

SpecMoods == InitMoods /\ [][NextMoods]_vars

(***************************************************************************)
(* _plan_reminders on every entry sequence, date and lookahead window.     *)
(***************************************************************************)
\* Reminders from the first day to past the largest window, no reminder in
\* its three forms (no key, None, ""), and one that is no date.
ReminderEntries ==
  {[title |-> "a", mood |-> "neutral"]}
  \cup {[title |-> "a", mood |-> "neutral", reminder |-> r] :
          r \in {None, Some(""), Some("soon")}
                \cup {Some(IsoText[d]) : d \in 1..(MaxDay + MaxWindow + 1)}}

Windows == {None} \cup {Some(n) : n \in (-1)..MaxWindow}

InitReminders ==
  InitPure([entries : SeqsUpTo(ReminderEntries, MaxSeqLen), days : Windows, today : Days])

PlanStep ==
  LET r == _plan_reminders(arg.entries, arg.days, arg.today)
  IN /\ ret.op = "none"
     /\ ret' = [op |-> "_plan_reminders", exc |-> r.exc, value |-> r.value]
     /\ UNCHANGED <<files, prev, appended, proc, log, arg>>

NextReminders == PlanStep

SpecReminders == InitReminders /\ [][NextReminders]_vars

(***************************************************************************)
(* _filter_entries on every entry sequence and option combination.         *)
(***************************************************************************)
FilterEntries ==
  {_build_entry_payload("a", "text", "calm", <<"x">>, None, None, now) : now \in Timestamps}
  \cup {_build_entry_payload("b", "text", "neutral", << >>, None, None, now) :
          now \in Timestamps}
  \cup {[title |-> "c"]}

FilterArgs ==
  [mood : {None, Some(""), Some("calm")},
   tag : {None, Some(<< >>), Some(<<"x">>)},
   since : DateArgs,
   until : {None, Some("")} \cup {Some(IsoText[d]) : d \in Days},
   limit : (-1)..MaxSeqLen]

InitFilter ==
  InitPure([entries : SeqsUpTo(FilterEntries, MaxSeqLen), args : FilterArgs])

FilterStep ==
  LET r == _filter_entries(arg.entries, arg.args)
  IN /\ ret.op = "none"
     /\ ret' = [op |-> "_filter_entries", exc |-> r.exc, value |-> r.value]
     /\ UNCHANGED <<files, prev, appended, proc, log, arg>>

NextFilter == FilterStep

SpecFilter == InitFilter /\ [][NextFilter]_vars

(***************************************************************************)
(* Properties.                                                             *)
(***************************************************************************)
Range(s) == {s[i] : i \in 1..Len(s)}

BagOfSeq(s) == [x \in Range(s) |-> Cardinality({i \in 1..Len(s) : s[i] = x})]

\* Load order, stated by position: an entry comes after the entries with a
\* greater timestamp and after the earlier entries of the file with the same one.
LoadOrder(s) ==
  LET pos(i) == 1 + Cardinality({j \in 1..Len(s) : StrLess(SortKey(s[i]), SortKey(s[j]))})
                  + Cardinality({j \in 1..(i - 1) : SortKey(s[j]) = SortKey(s[i])})
  IN [p \in 1..Len(s) |-> s[CHOOSE i \in 1..Len(s) : pos(i) = p]]

Marked(e, status) == [k \in DOMAIN e \cup {"status"} |-> IF k = "status" THEN status ELSE e[k]]

Unmarked(e) == [k \in DOMAIN e \ {"status"} |-> e[k]]

\* C1: set_status marks the first entry, in load order, with the given
\* timestamp and no other entry, saves the whole collection, and returns
\* true exactly when there is such an entry.
C1_SetStatusFirstMatch ==
  ret.op = "complete" =>
    LET old == LoadOrder(Stored(prev))
        new == Stored(files)
        hits == {i \in 1..Len(old) : old[i].timestamp = ret.timestamp}
    IN IF hits = {}
       THEN ~ret.updated /\ BagOfSeq(new) = BagOfSeq(old)
       ELSE LET k == CHOOSE i \in hits : \A j \in hits : i <= j
            IN /\ ret.updated
               /\ BagOfSeq(new) = BagOfSeq([old EXCEPT ![k] = Marked(old[k], "done")])

\* C1 witness: a completed entry among two that share the timestamp.
C1_Witness ==
  /\ ret.op = "complete"
  /\ ret.updated
  /\ \E i, j \in 1..Len(Stored(prev)) :
       /\ i < j
       /\ Stored(prev)[i].timestamp = ret.timestamp
       /\ Stored(prev)[j].timestamp = ret.timestamp
       /\ Stored(prev)[i].title # Stored(prev)[j].title
       /\ "status" \notin DOMAIN Stored(prev)[i]
       /\ "status" \notin DOMAIN Stored(prev)[j]

\* C3: every appended entry is still stored, with every field but status
\* as it was appended; nothing else is stored.
C3_AppendedEntriesKept ==
  LET now == Stored(files)
  IN BagOfSeq([i \in 1..Len(now) |-> Unmarked(now[i])]) = appended

\* C3 witness: two entries appended, one of them completed since.
C3_Witness ==
  /\ BagCardinality(appended) = 2
  /\ ret.op = "complete"
  /\ ret.updated
  /\ \E i \in 1..Len(Stored(files)) : "status" \notin DOMAIN Stored(files)[i]

Malformed(opt) == Truthy(opt) /\ ~IsIsoDate(opt[1])

\* A failure that names the offending value and the expected format.
ReportsBadDate(r, bad) ==
  /\ r.exc = "ValueError"
  /\ r.value \in bad
  /\ r.text = "date must be in YYYY-MM-DD form, got"

StoredBadReminders(fs) ==
  {Stored(fs)[i].reminder[1] : i \in {n \in 1..Len(Stored(fs)) : Malformed(Stored(fs)[n].reminder)}}

\* C6: a malformed date, given to list as --since or --until, to add or
\* prompt as the reminder, or met by remind or review in a stored reminder,
\* ends the invocation with an error naming the value and the format.
C6_BadDateReported ==
  /\ (ret.op \in {"add", "prompt"} /\ Malformed(ret.remind))
       => ReportsBadDate(ret, {ret.remind[1]})
  /\ (ret.op = "list" /\ (Malformed(ret.since) \/ Malformed(ret.until)))
       => ReportsBadDate(ret, {x[1] : x \in {y \in {ret.since, ret.until} : Malformed(y)}})
  /\ (ret.op \in {"remind", "review"} /\ StoredBadReminders(prev) # {})
       => ReportsBadDate(ret, StoredBadReminders(prev))

Descending(s) ==
  \A i, j \in 1..Len(s) : i < j => ~StrLess(SortKey(s[i]), SortKey(s[j]))

\* C2: load right after save(X) returns exactly the entries of X, each as
\* often as in X and with the same fields, by timestamp descending.
C2_LoadAfterSave ==
  ret.op = "load_entries" =>
    /\ BagOfSeq(ret.value) = BagOfSeq(arg.entries)
    /\ Descending(ret.value)

\* C2 witness: two entries saved in ascending order come back re-sorted.
C2_Witness ==
  /\ ret.op = "load_entries"
  /\ Len(arg.entries) = 2
  /\ ret.value # arg.entries
  /\ \E i \in 1..2 : "status" \in DOMAIN arg.entries[i]

\* C9 as amended: after export the target holds exactly the given entries,
\* in the given order, whatever it held before; the call returns the
\* target; the logbook is unchanged unless it is the target.
C9_ExportOverwrites ==
  ret.op = "export_entries" =>
    /\ json_loads(files[arg.target]) = arg.entries
    /\ ret.value = arg.target
    /\ arg.target # LOGBOOK_FILE => files[LOGBOOK_FILE] = prev[LOGBOOK_FILE]

\* C9 as stated: the same, with the logbook unchanged for every target.
C9_Original ==
  ret.op = "export_entries" =>
    /\ json_loads(files[arg.target]) = arg.entries
    /\ ret.value = arg.target
    /\ files[LOGBOOK_FILE] = prev[LOGBOOK_FILE]

\* C9 witness: two entries exported over a file that held something else.
C9_Witness ==
  /\ ret.op = "export_entries"
  /\ Len(arg.entries) = 2
  /\ arg.target = EXPORT_FILE
  /\ prev[EXPORT_FILE] # NoFile
  /\ prev[EXPORT_FILE] # files[EXPORT_FILE]
  /\ prev[LOGBOOK_FILE] # NoFile

AllDone == \A p \in Procs : proc[p].pc = "done"

\* Both invocations loaded before either saved.
Raced == Len(log) = 4 /\ log[1][2] = "load" /\ log[2][2] = "load"

\* One invocation saved before the other loaded.
OneAfterTheOther == Len(log) = 4 /\ log[2][2] = "save"

\* C10: when both appends load before either saves, the store ends with
\* what it held before plus the entry of the invocation that saved last
\* only; when they run one after the other it ends with both entries.
C10_LostUpdate ==
  AllDone =>
    /\ Raced =>
         BagOfSeq(Stored(files)) =
           BagOfSeq(Stored(prev)) (+) SetToBag({proc[log[4][1]].entry})
    /\ OneAfterTheOther =>
         BagOfSeq(Stored(files)) =
           BagOfSeq(Stored(prev)) (+) SetToBag({proc[1].entry})
                                  (+) SetToBag({proc[2].entry})

\* C10 witness: a race after which the first saver's entry is not stored.
C10_Witness ==
  /\ AllDone
  /\ Raced
  /\ proc[1].entry # proc[2].entry
  /\ \A i \in 1..Len(Stored(files)) : Stored(files)[i] # proc[log[3][1]].entry
  /\ \E i \in 1..Len(Stored(files)) : Stored(files)[i] = proc[log[4][1]].entry

\* The k-th smallest element of a set of integers.
Nth(S, k) == CHOOSE x \in S : Cardinality({y \in S : y < x}) = k - 1

\* s without its leading and trailing whitespace.
Trimmed(s) ==
  LET solid == {i \in 1..Len(s) : s[i] \notin Whitespace}
  IN IF solid = {} THEN << >>
     ELSE SubSeq(s, Nth(solid, 1), Nth(solid, Cardinality(solid)))

\* The comma-separated fragments of raw, trimmed, the empty ones dropped.
ExpectedTags(raw) ==
  LET cuts == {0, Len(raw) + 1} \cup {i \in 1..Len(raw) : raw[i] = ","}
      frag(k) == Trimmed(SubSeq(raw, Nth(cuts, k) + 1, Nth(cuts, k + 1) - 1))
      kept == {k \in 1..(Cardinality(cuts) - 1) : frag(k) # << >>}
  IN [n \in 1..Cardinality(kept) |-> frag(Nth(kept, n))]

Blank(tag) == \A i \in 1..Len(tag) : tag[i] \in Whitespace

\* C7: the tags are the input's comma-separated fragments, stripped, the
\* empty and whitespace-only ones dropped, order and duplicates kept; no
\* entry built from the input carries an empty or whitespace-only tag.
C7_TagsNormalized ==
  /\ ret.op = "_normalize_tags" => ret.value = ExpectedTags(arg.raw)
  /\ ret.op \in {"_build_entry_payload", "_prompt_for_entry"} =>
       /\ ret.value.tags = ExpectedTags(arg.raw)
       /\ \A i \in 1..Len(ret.value.tags) : ~Blank(ret.value.tags[i])

\* C7 witness: a duplicate tag kept and a whitespace-only fragment dropped.
C7_Witness ==
  /\ ret.op = "_normalize_tags"
  /\ arg.raw = <<"a", ",", " ", ",", "a">>
  /\ ret.value = <<<<"a">>, <<"a">>>>

MoodLabel(e) == IF "mood" \in DOMAIN e THEN e["mood"] ELSE "neutral"

RECURSIVE SumOver(_, _)
SumOver(f, S) ==
  IF S = {} THEN 0
  ELSE LET x == CHOOSE x \in S : TRUE IN f[x] + SumOver(f, S \ {x})

\* C8: the summary maps each label some entry carries to the number of
\* entries carrying it, an entry without mood counting as "neutral"; it
\* has no other label, and the counts add up to the number of entries.
C8_MoodSummary ==
  ret.op = "_summarize_moods" =>
    /\ DOMAIN ret.value = {MoodLabel(arg.entries[i]) : i \in 1..Len(arg.entries)}
    /\ \A m \in DOMAIN ret.value :
         ret.value[m] = Cardinality({i \in 1..Len(arg.entries) : MoodLabel(arg.entries[i]) = m})
    /\ SumOver(ret.value, DOMAIN ret.value) = Len(arg.entries)

\* C8 witness: an entry without mood counted together with a "neutral"
\* one, beside an entry of another label.
C8_Witness ==
  /\ ret.op = "_summarize_moods"
  /\ \E i, j, k \in 1..Len(arg.entries) :
       /\ "mood" \notin DOMAIN arg.entries[i]
       /\ "mood" \in DOMAIN arg.entries[j] /\ arg.entries[j]["mood"] = "neutral"
       /\ "mood" \in DOMAIN arg.entries[k] /\ arg.entries[k]["mood"] = "curious"
  /\ ret.value["neutral"] = 2
  /\ ret.value["curious"] = 1

HasReminder(e) == "reminder" \in DOMAIN e /\ Truthy(e["reminder"])

ReminderDay(e) == CHOOSE d \in 1..Len(IsoText) : IsoText[d] = e["reminder"][1]

IsOverdue(e) == HasReminder(e) /\ ReminderDay(e) < arg.today

IsUpcoming(e) ==
  /\ HasReminder(e)
  /\ ReminderDay(e) >= arg.today
  /\ arg.days # None => ReminderDay(e) <= arg.today + arg.days[1]

FirstN(s, n) == SubSeq(s, 1, IF n < Len(s) THEN n ELSE Len(s))

EntryDay(e) == CHOOSE d \in 1..Len(IsoText) : IsoText[d] = e["timestamp"].date

BadFilterDate == Malformed(arg.args.since) \/ Malformed(arg.args.until)

\* The entry passes the predicates on the axes named in `on`.
Passes(e, a, on) ==
  /\ "mood" \in on => ("mood" \in DOMAIN e /\ e["mood"] = a.mood[1])
  /\ "tag" \in on => ("tags" \in DOMAIN e /\ a.tag[1] \in Range(e["tags"]))
  /\ "since" \in on =>
       ("timestamp" \in DOMAIN e /\ EntryDay(e) >= fromisoformat(a.since[1]).value)
  /\ "until" \in on =>
       ("timestamp" \in DOMAIN e /\ EntryDay(e) <= fromisoformat(a.until[1]).value)

\* The axes on which an option was supplied (a date bound: a date).
Supplied(a) ==
  {x \in {"mood", "tag"} : a[x] # None}
  \cup {x \in {"since", "until"} : Truthy(a[x])}

\* The axes on which a non-empty option was supplied.
SuppliedNonEmpty(a) ==
  {x \in {"mood", "since", "until"} : Truthy(a[x])}
  \cup {x \in {"tag"} : TruthyChars(a[x])}

\* C5 as amended: the result is the subsequence, in input order, of the
\* entries that pass every predicate supplied with a non-empty value,
\* cut to its first `limit` entries when limit is positive, left whole
\* when limit is 0, and short of its last -limit entries when limit is
\* negative.
C5_FilterByCriteria ==
  (ret.op = "_filter_entries" /\ ~BadFilterDate) =>
    LET ok(e) == Passes(e, arg.args, SuppliedNonEmpty(arg.args))
        passing == SelectSeq(arg.entries, ok)
        limit == arg.args.limit
    IN /\ ret.exc = ""
       /\ ret.value = IF limit > 0 THEN FirstN(passing, limit)
                      ELSE IF limit = 0 THEN passing
                      ELSE FirstN(passing, Len(passing) + limit)

\* C5 as stated: the entries that pass every supplied predicate, cut to
\* the first `limit` of them.
C5_Original ==
  (ret.op = "_filter_entries" /\ ~BadFilterDate) =>
    LET ok(e) == Passes(e, arg.args, Supplied(arg.args))
    IN /\ ret.exc = ""
       /\ ret.value = FirstN(SelectSeq(arg.entries, ok), arg.args.limit)

\* C5 witness: all four predicates supplied, two entries pass, the limit
\* keeps the first.
C5_Witness ==
  /\ ret.op = "_filter_entries"
  /\ ret.exc = ""
  /\ Supplied(arg.args) = {"mood", "tag", "since", "until"}
  /\ arg.args.limit = 1
  /\ Len(arg.entries) = 2
  /\ arg.entries[1] # arg.entries[2]
  /\ \A i \in 1..2 : Passes(arg.entries[i], arg.args, Supplied(arg.args))
  /\ ret.value = <<arg.entries[1]>>

====
